---- MODULE Spec2Model ----
(***************************************************************************)
(* Recurring-payment detection of wise-wallet.                             *)
(*                                                                         *)
(* The bank-data provider's transaction list (data) grows one transaction  *)
(* at a time; on every change the page and dashboard memos recompute, at   *)
(* the day the page is opened (now):                                       *)
(*   detectedSubscriptions  client/src/pages/Subscriptions.tsx             *)
(*   clientSubscriptions    client/src/components/financial/               *)
(*                          ActiveSubscriptions.tsx                        *)
(*   rootSubscriptions      src/components/financial/                      *)
(*                          ActiveSubscriptions.tsx                        *)
(*                                                                         *)
(* Representation.  A string is a sequence of one-character strings, so    *)
(* that toLowerCase, replace and trim are computed.  A date is a day       *)
(* number (days since the epoch, provider dates are midnight UTC), so      *)
(* differenceInDays is a subtraction; calendar arithmetic is computed on   *)
(* the year, month and day of the day number, in one time zone.  Amounts   *)
(* are integers; a mean is the exact fraction [num, den], and every        *)
(* comparison of a mean is made by cross-multiplication.                   *)
(*                                                                         *)
(* Spec explores well-formed provider histories; SpecEdge explores records *)
(* without a label, with an amount that is not a number, and with labels   *)
(* that normalize to the empty string or to an inherited property name.    *)
(* A memo that throws is recorded in renderError.                          *)
(***************************************************************************)
EXTENDS Integers, Sequences, FiniteSets, TLC

VARIABLES
    feed,                   \* which slice of the input space the provider's history is drawn from
    now,                    \* day number of new Date() when the memos run
    nowHours,               \* hours of new Date() past midnight
    data,                   \* data.transactions of the provider query, in arrival order
    pageTransactions,       \* the array handed to detectSubscriptions, as the run left it
    detectedSubscriptions,  \* Subscriptions page: useMemo(detectSubscriptions)
    clientSubscriptions,    \* client dashboard card: useMemo of ActiveSubscriptions
    rootSubscriptions,      \* root dashboard card: useMemo of ActiveSubscriptions
    renderError,            \* the components whose memo threw while rendering
    confidenceFilter,       \* Subscriptions page: useState("all"), the confidence select
    filteredSubscriptions,  \* Subscriptions page: useMemo of the filters
    upcomingBilling,        \* Subscriptions page: subscriptions billing in the next 7 days
    storeTransactions,      \* useStore: state.transactions
    user,                   \* useAuth: state.user (a user id, or null)
    session,                \* useAuth: state.session
    profile,                \* useAuth: state.profile
    isLoading,              \* useAuth: state.isLoading
    isInitialized,          \* useAuth: state.isInitialized
    authListener,           \* the onAuthStateChange callback is registered
    serverSession,          \* the session the auth service holds for this browser
    authEvents,             \* auth state changes not yet delivered to the callback
    profileTimers,          \* pending setTimeout(() => get().fetchProfile(), 0)
    profileFetches,         \* profile queries in flight, by the user id they ask for
    initializePc,           \* position of initialize()
    signInPc,               \* position of signIn(): idle, or the user signing in
    signOutPc,              \* position of signOut()
    signIns,                \* calls of signIn so far
    signOuts,               \* calls of signOut so far
    mounted,                \* PaymentSuccessHandler: the instance is mounted
    paymentSuccess,         \* success === 'true' && sessionId, of the current URL
    handlerUserId,          \* PaymentSuccessHandler: user?.id at the last render
    handled,                \* PaymentSuccessHandler: handled.current
    effectPending,          \* PaymentSuccessHandler: the effect is due to run
    strictReruns,           \* StrictMode re-runs of the effect so far
    redirects,              \* arrivals of a success URL after mounting
    isPro,                  \* is_pro of the subscription row on the server
    pollPc,                 \* position of poll()
    pollIndex,              \* i of the poll's loop
    pollResults,            \* data?.is_pro of each refetch the poll has awaited
    pollRefetches,          \* refetch() calls made by the poll
    handledCount,           \* times the effect went past its guards
    location                \* the router's path

pageVars == <<feed, now, nowHours, data, pageTransactions, detectedSubscriptions,
              clientSubscriptions, rootSubscriptions, renderError, confidenceFilter,
              filteredSubscriptions, upcomingBilling>>

storeVars == <<storeTransactions>>

authVars == <<user, session, profile, isLoading, isInitialized, authListener,
              serverSession, authEvents, profileTimers, profileFetches,
              initializePc, signInPc, signOutPc, signIns, signOuts>>

paymentVars == <<mounted, paymentSuccess, handlerUserId, handled, effectPending,
                 strictReruns, redirects, isPro, pollPc, pollIndex, pollResults,
                 pollRefetches, handledCount, location>>

vars == <<pageVars, storeVars, authVars, paymentVars>>

-----------------------------------------------------------------------------
(* Bounds of the explored input space *)

MaxTx == 4        \* longest history in the irregular feeds
MaxRun == 10      \* longest history in the regular feed
MaxGap == 372     \* largest period of the regular feed, in days
LatestDay == 19800 \* day number of the newest charge of a newest-first feed
MaxTwin == 6      \* longest list of the two-merchant feed
MaxBatch == 2     \* longest batch handed to syncWithPlaid
MaxSignIns == 2   \* calls of signIn
MaxSignOuts == 2  \* calls of signOut
MaxStrictReruns == 1 \* StrictMode re-runs of the payment handler's effect
MaxRedirects == 2 \* arrivals of a success URL at the mounted payment handler

-----------------------------------------------------------------------------
(* Generic helpers *)

NULL == "undefined"

Abs(x) == IF x < 0 THEN -x ELSE x

RECURSIVE SumSeq(_)
SumSeq(s) == IF s = <<>> THEN 0 ELSE Head(s) + SumSeq(Tail(s))

RECURSIVE Flatten(_)
Flatten(ss) == IF ss = <<>> THEN <<>> ELSE Head(ss) \o Flatten(Tail(ss))

\* Array.prototype.sort is stable.  before[i][j] is "comparator(s[i], s[j]) < 0";
\* an element precedes another when it sorts before it, or when neither sorts
\* before the other and it came first.
StableSort(s, before) ==
    LET n == Len(s)
        Precedes(j, i) == before[j][i] \/ (~before[i][j] /\ j < i)
        rank(i) == Cardinality({j \in 1..n : Precedes(j, i)}) + 1
    IN  [p \in 1..n |-> s[CHOOSE i \in 1..n : rank(i) = p]]

-----------------------------------------------------------------------------
(* Strings *)

UpperCase == <<"A","B","C","D","E","F","G","H","I","J","K","L","M",
               "N","O","P","Q","R","S","T","U","V","W","X","Y","Z">>
LowerCase == <<"a","b","c","d","e","f","g","h","i","j","k","l","m",
               "n","o","p","q","r","s","t","u","v","w","x","y","z">>
DigitChars == <<"0","1","2","3","4","5","6","7","8","9">>
Whitespace == {" ", "\t"}

Range(s) == {s[i] : i \in 1..Len(s)}

LowerOf == [c \in Range(UpperCase) |-> LowerCase[CHOOSE i \in 1..26 : UpperCase[i] = c]]

\* the characters /[^a-z0-9\s]/ does not match
KeptChars == Range(LowerCase) \cup Range(DigitChars) \cup Whitespace

toLowerCaseChar(c) == IF c \in DOMAIN LowerOf THEN LowerOf[c] ELSE c

toLowerCase(str) == [i \in 1..Len(str) |-> toLowerCaseChar(str[i])]

\* str.replace(/[^a-z0-9\s]/g, '')
stripSymbols(str) ==
    SelectSeq(str, LAMBDA c : c \in KeptChars)

RECURSIVE trimStart(_)
trimStart(str) ==
    IF str # <<>> /\ Head(str) \in Whitespace THEN trimStart(Tail(str)) ELSE str

RECURSIVE trimEnd(_)
trimEnd(str) ==
    IF str # <<>> /\ str[Len(str)] \in Whitespace
    THEN trimEnd(SubSeq(str, 1, Len(str) - 1))
    ELSE str

trim(str) == trimEnd(trimStart(str))

-----------------------------------------------------------------------------
(* Provider transactions and their app form *)

\* a || b on strings held as character sequences; an absent string and the
\* empty string are both falsy and both held as <<>>.
orElse(a, b) == IF a = <<>> THEN b ELSE a

\* the value undefined where a string is read from: no character sequence
undefinedString == <<NULL>>

\* the amount NaN, outside the range of the amounts
NotANumber == 0 - 1000000

\* a < b on numbers: false when either is NaN
lessThan(a, b) == a # NotANumber /\ b # NotANumber /\ a < b

\* -amount: NaN stays NaN
negated(amount) == IF amount = NotANumber THEN NotANumber ELSE -amount

\* a || b on category labels, held as plain strings
orElseLabel(a, b) == IF a = NULL \/ a = "" THEN b ELSE a

\* category?.[0]: an absent array and an empty one both give undefined
firstCategory(category) == IF category = <<>> THEN NULL ELSE category[1]

\* useTransformedTransactions: one app transaction per provider transaction,
\* the amount negated (the provider reports spending as positive).
transformTransaction(plaidTx) ==
    [ id         |-> plaidTx.transaction_id,
      merchant   |-> orElse(plaidTx.merchant_name, plaidTx.name),
      amount     |-> negated(plaidTx.amount),
      date       |-> plaidTx.date,
      category   |-> orElseLabel(firstCategory(plaidTx.category), "Other"),
      account_id |-> plaidTx.account_id ]

useTransformedTransactions(plaidTxs) ==
    [i \in 1..Len(plaidTxs) |-> transformTransaction(plaidTxs[i])]

\* differenceInDays(dateLeft, dateRight) of two midnight-UTC dates
differenceInDays(dateLeft, dateRight) == dateLeft - dateRight

\* differenceInDays of two instants, each a day number and the hours past
\* midnight: the number of full days between them, rounded toward zero
differenceInDaysAt(dayLeft, hoursLeft, dayRight, hoursRight) ==
    LET hours == (dayLeft * 24 + hoursLeft) - (dayRight * 24 + hoursRight)
    IN  IF hours >= 0 THEN hours \div 24 ELSE -((-hours) \div 24)

-----------------------------------------------------------------------------
(* Calendar dates, as Date and date-fns compute them.  Day 0 is 1970-01-01; *)
(* months are numbered 1..12.                                              *)

isLeapYear(year) == (year % 4 = 0 /\ year % 100 # 0) \/ year % 400 = 0

getDaysInMonth(year, month) ==
    IF month = 2 THEN (IF isLeapYear(year) THEN 29 ELSE 28)
    ELSE IF month \in {4, 6, 9, 11} THEN 30
    ELSE 31

\* new Date(year, month, date): the day number of a calendar date; a date past
\* the end of the month runs over into the following month
dayNumber(year, month, date) ==
    LET y   == IF month <= 2 THEN year - 1 ELSE year
        era == y \div 400
        yoe == y - era * 400
        mp  == IF month > 2 THEN month - 3 ELSE month + 9
        doy == (153 * mp + 2) \div 5 + date - 1
        doe == yoe * 365 + yoe \div 4 - yoe \div 100 + doy
    IN  era * 146097 + doe - 719468

\* getFullYear / getMonth / getDate of a day number
calendarDate(day) ==
    LET z   == day + 719468
        era == z \div 146097
        doe == z - era * 146097
        yoe == (doe - doe \div 1460 + doe \div 36524 - doe \div 146096) \div 365
        doy == doe - (365 * yoe + yoe \div 4 - yoe \div 100)
        mp  == (5 * doy + 2) \div 153
        month == IF mp < 10 THEN mp + 3 ELSE mp - 9
    IN  [ year  |-> yoe + era * 400 + (IF month <= 2 THEN 1 ELSE 0),
          month |-> month,
          date  |-> doy - (153 * mp + 2) \div 5 + 1 ]

\* addWeeks(date, amount) = addDays(date, amount * 7)
addWeeks(date, amount) == date + amount * 7

\* a slip: the month set on the date itself (Date.setMonth), so that a day the
\* target month does not have runs over into the month after
addMonthsOverflowing(date, amount) ==
    LET from       == calendarDate(date)
        monthIndex == from.year * 12 + (from.month - 1) + amount
    IN  dayNumber(monthIndex \div 12, (monthIndex % 12) + 1, from.date)

\* addMonths(date, amount): the same day of the month `amount` months on, or
\* the last day of that month when it is shorter
addMonths(date, amount) ==
    LET from        == calendarDate(date)
        monthIndex  == from.year * 12 + (from.month - 1) + amount
        year        == monthIndex \div 12
        month       == (monthIndex % 12) + 1
        daysInMonth == getDaysInMonth(year, month)
    IN  IF from.date >= daysInMonth THEN dayNumber(year, month, daysInMonth)
        ELSE dayNumber(year, month, from.date)

-----------------------------------------------------------------------------
(* Grouping: reduce into a Record<string, group>, then Object.entries *)

\* keyOf[i] is the key computed for the i-th transaction of the reduce.
\* The keys of acc in insertion order: the key of each transaction that is the
\* first of its key.
insertionKeys(keyOf) ==
    LET firsts == SelectSeq([i \in 1..Len(keyOf) |-> i],
                            LAMBDA i : \A j \in 1..(i - 1) : keyOf[j] # keyOf[i])
    IN  [k \in 1..Len(firsts) |-> keyOf[firsts[k]]]

\* acc[key]: the transactions pushed under key, in the order of the reduce
membersOf(txs, keyOf, key) ==
    LET at == SelectSeq([i \in 1..Len(txs) |-> i], LAMBDA i : keyOf[i] = key)
    IN  [k \in 1..Len(at) |-> txs[at[k]]]

\* A canonical array index ("0", "7", "711"): digits only, no leading zero.
\* (Keys here are far shorter than the ten digits of 2^32 - 2.)
isArrayIndex(key) ==
    /\ key # <<>>
    /\ \A i \in 1..Len(key) : key[i] \in Range(DigitChars)
    /\ (Len(key) = 1 \/ key[1] # "0")

RECURSIVE numericValue(_)
numericValue(key) ==
    IF key = <<>> THEN 0
    ELSE 10 * numericValue(SubSeq(key, 1, Len(key) - 1))
         + ((CHOOSE d \in 1..10 : DigitChars[d] = key[Len(key)]) - 1)

\* Object.entries enumerates integer-like keys first, in ascending numeric
\* order, then the string keys in insertion order.
ownKeys(keys) ==
    LET indices == SelectSeq(keys, isArrayIndex)
    IN  StableSort(indices,
                   [i \in 1..Len(indices) |-> [j \in 1..Len(indices) |->
                       numericValue(indices[i]) < numericValue(indices[j])]])
        \o SelectSeq(keys, LAMBDA k : ~isArrayIndex(k))

-----------------------------------------------------------------------------
(* detectSubscriptions, client/src/pages/Subscriptions.tsx *)

\* a refactoring slip: the outflow filter left out
outflowUnfiltered(transactions) == transactions

\* a slip: the provider's sign convention (spending is positive) applied to
\* the app's transactions
outflowProviderSign(transactions) == SelectSeq(transactions, LAMBDA t : lessThan(0, t.amount))

\* transactions.filter(t => t.amount < 0)
outflow(transactions) == SelectSeq(transactions, LAMBDA t : lessThan(t.amount, 0))

\* a slip: the label trimmed before its symbols are removed
normalizedNameOfTrimmedFirst(transaction) ==
    stripSymbols(trim(toLowerCase(transaction.merchant)))

\* transaction.merchant.toLowerCase().replace(/[^a-z0-9\s]/g, '').trim()
normalizedNameOf(transaction) ==
    trim(stripSymbols(toLowerCase(transaction.merchant)))

\* a slip: originalName overwritten by every transaction of the key
merchantGroupLastName(members) ==
    [ originalName |-> members[Len(members)].merchant,
      transactions |-> members,
      category     |-> orElseLabel(members[1].category, "Other") ]

\* a slip: the category taken from the first transaction of the key that has
\* one of its own
merchantGroupFirstLabelled(members) ==
    LET labelled == {i \in 1..Len(members) : members[i].category # "Other"}
    IN  [ originalName |-> members[1].merchant,
          transactions |-> members,
          category     |-> IF labelled = {} THEN "Other"
                           ELSE members[CHOOSE i \in labelled :
                                            \A j \in labelled : i <= j].category ]

\* acc[normalizedName]: created by the first transaction of the key, which
\* gives originalName and category; every transaction of the key is pushed.
merchantGroup(members) ==
    [ originalName |-> members[1].merchant,
      transactions |-> members,
      category     |-> orElseLabel(members[1].category, "Other") ]

\* a slip: the group left in the order of the input
sortNewestFirstMissing(txs) == txs

\* a slip: the average rounded down to a whole number
meanTruncated(xs) == [num |-> SumSeq(xs) \div Len(xs), den |-> 1]

\* merchantTxs.sort((a, b) => new Date(b.date) - new Date(a.date))
sortNewestFirst(txs) ==
    StableSort(txs, [i \in 1..Len(txs) |-> [j \in 1..Len(txs) |->
                        txs[j].date - txs[i].date < 0]])

mean(xs) == [num |-> SumSeq(xs), den |-> Len(xs)]

\* a slip: some() where every() is meant
amountVarianceSome(amounts, avgAmount) ==
    \E i \in 1..Len(amounts) :
        10 * Abs(amounts[i] * avgAmount.den - avgAmount.num) <= avgAmount.num

\* amounts.every(amt => Math.abs(amt - avgAmount) / avgAmount <= 0.1)
amountVariance(amounts, avgAmount) ==
    \A i \in 1..Len(amounts) :
        10 * Abs(amounts[i] * avgAmount.den - avgAmount.num) <= avgAmount.num

\* a slip: every diff pushed, the (diff > 0) test left out
dateDiffsUnfiltered(merchantTxs) ==
    [i \in 1..(Len(merchantTxs) - 1) |->
        differenceInDays(merchantTxs[i].date, merchantTxs[i + 1].date)]

\* for i in 1..length-1: diff = differenceInDays(txs[i-1], txs[i]);
\* if (diff > 0) dateDiffs.push(diff)
dateDiffsOf(merchantTxs) ==
    SelectSeq([i \in 1..(Len(merchantTxs) - 1) |->
                  differenceInDays(merchantTxs[i].date, merchantTxs[i + 1].date)],
              LAMBDA diff : diff > 0)

\* a slip: some() where every() is meant
dayVarianceSome(dateDiffs, avgDaysBetween) ==
    \E i \in 1..Len(dateDiffs) :
        Abs(dateDiffs[i] * avgDaysBetween.den - avgDaysBetween.num)
            <= 5 * avgDaysBetween.den

\* dateDiffs.every(diff => Math.abs(diff - avgDaysBetween) <= 5)
dayVariance(dateDiffs, avgDaysBetween) ==
    \A i \in 1..Len(dateDiffs) :
        Abs(dateDiffs[i] * avgDaysBetween.den - avgDaysBetween.num)
            <= 5 * avgDaysBetween.den

\* lo <= avg && avg <= hi
within(avg, lo, hi) == lo * avg.den <= avg.num /\ avg.num <= hi * avg.den

\* a slip: the average truncated to whole days before the comparison
frequencyOfTruncated(avgDaysBetween) ==
    LET days == [num |-> avgDaysBetween.num \div avgDaysBetween.den, den |-> 1]
    IN  IF within(days, 6, 8) THEN "weekly"
        ELSE IF within(days, 28, 35) THEN "monthly"
        ELSE IF within(days, 85, 95) THEN "quarterly"
        ELSE IF within(days, 360, 370) THEN "yearly"
        ELSE NULL

\* lo <= avg && avg < hi
withinExclusive(avg, lo, hi) == lo * avg.den <= avg.num /\ avg.num < hi * avg.den

\* a slip: the upper bounds of the windows exclusive
frequencyOfExclusive(avgDaysBetween) ==
    IF withinExclusive(avgDaysBetween, 6, 8) THEN "weekly"
    ELSE IF withinExclusive(avgDaysBetween, 28, 35) THEN "monthly"
    ELSE IF withinExclusive(avgDaysBetween, 85, 95) THEN "quarterly"
    ELSE IF withinExclusive(avgDaysBetween, 360, 370) THEN "yearly"
    ELSE NULL

\* The if / else-if chain over avgDaysBetween; NULL is the final "return".
frequencyOf(avgDaysBetween) ==
    IF within(avgDaysBetween, 6, 8) THEN "weekly"
    ELSE IF within(avgDaysBetween, 28, 35) THEN "monthly"
    ELSE IF within(avgDaysBetween, 85, 95) THEN "quarterly"
    ELSE IF within(avgDaysBetween, 360, 370) THEN "yearly"
    ELSE NULL

frequencyBonus(frequency) ==
    CASE frequency = "weekly" -> 20
      [] frequency = "monthly" -> 30
      [] frequency = "quarterly" -> 25
      [] frequency = "yearly" -> 25

\* a slip: the size bonuses as exclusive tiers (else-if) instead of stacking
confidenceScoreTiered(frequency, length) ==
    60 + frequencyBonus(frequency) + (IF length >= 3 THEN 10 ELSE 0)

\* let confidence = 60; += the frequency bonus; += 10 at each of 3, 5, 10
confidenceScore(frequency, length) ==
    60 + frequencyBonus(frequency)
       + (IF length >= 3 THEN 10 ELSE 0)
       + (IF length >= 5 THEN 10 ELSE 0)
       + (IF length >= 10 THEN 10 ELSE 0)

\* a slip: the cap left out
capConfidenceMissing(confidence) == confidence

\* Math.min(confidence, 100)
capConfidence(confidence) == IF confidence < 100 THEN confidence ELSE 100

\* a slip: the id built from the frequency alone
subscriptionIdFrequencyOnly(normalizedName, frequency) == <<"-", frequency>>

\* `${normalizedName}-${frequency}`
subscriptionId(normalizedName, frequency) == normalizedName \o <<"-", frequency>>

\* switch (frequency): addWeeks(lastPayment, 1) / addMonths(lastPayment, 1 | 3 | 12)
nextEstimatedPaymentOf(frequency, lastPayment) ==
    CASE frequency = "weekly" -> addWeeks(lastPayment, 1)
      [] frequency = "monthly" -> addMonths(lastPayment, 1)
      [] frequency = "quarterly" -> addMonths(lastPayment, 3)
      [] frequency = "yearly" -> addMonths(lastPayment, 12)

\* a slip: the buffer left out (daysSinceLastPayment <= expectedDaysBetween)
isActiveUnbuffered(daysSinceLastPayment, expectedDaysBetween) ==
    daysSinceLastPayment * expectedDaysBetween.den <= expectedDaysBetween.num

\* daysSinceLastPayment <= expectedDaysBetween * 1.5
isActiveAt(daysSinceLastPayment, expectedDaysBetween) ==
    2 * daysSinceLastPayment * expectedDaysBetween.den <= 3 * expectedDaysBetween.num

\* The forEach callback: the subscriptions one group pushes (none or one).
detectGroup(normalizedName, group) ==
    LET merchantTxs    == sortNewestFirst(group.transactions)
        amounts        == [i \in 1..Len(merchantTxs) |-> Abs(merchantTxs[i].amount)]
        avgAmount      == mean(amounts)
        dateDiffs      == dateDiffsOf(merchantTxs)
        avgDaysBetween == mean(dateDiffs)
        frequency      == frequencyOf(avgDaysBetween)
        lastPayment    == merchantTxs[1].date
        daysSinceLastPayment == differenceInDaysAt(now, nowHours, lastPayment, 0)
    IN  IF Len(group.transactions) < 2 THEN <<>>
        ELSE IF ~amountVariance(amounts, avgAmount) THEN <<>>
        ELSE IF Len(dateDiffs) = 0 THEN <<>>
        ELSE IF ~dayVariance(dateDiffs, avgDaysBetween) THEN <<>>
        ELSE IF frequency = NULL THEN <<>>
        ELSE << [ id           |-> subscriptionId(normalizedName, frequency),
                  merchant     |-> group.originalName,
                  amount       |-> avgAmount,
                  frequency    |-> frequency,
                  lastPayment  |-> lastPayment,
                  nextEstimatedPayment |-> nextEstimatedPaymentOf(frequency, lastPayment),
                  transactions |-> merchantTxs,
                  confidence   |-> capConfidence(confidenceScore(frequency, Len(merchantTxs))),
                  category     |-> group.category,
                  isActive     |-> isActiveAt(daysSinceLastPayment, avgDaysBetween) ] >>

\* a slip: the list returned as collected
sortByConfidenceMissing(subs) == subs

\* detectedSubscriptions.sort((a, b) => b.confidence - a.confidence)
sortByConfidence(subs) ==
    StableSort(subs, [i \in 1..Len(subs) |-> [j \in 1..Len(subs) |->
                         subs[j].confidence - subs[i].confidence < 0]])

detectSubscriptions(transactions) ==
    LET spend == outflow(transactions)
        keyOf == [i \in 1..Len(spend) |-> normalizedNameOf(spend[i])]
        keys  == ownKeys(insertionKeys(keyOf))
    IN  sortByConfidence(
            Flatten([k \in 1..Len(keys) |->
                detectGroup(keys[k], merchantGroup(membersOf(spend, keyOf, keys[k])))]))

\* the keys that every object literal already answers to, through
\* Object.prototype, among the strings a normalized name or a card key can be
Constructor == <<"c", "o", "n", "s", "t", "r", "u", "c", "t", "o", "r">>
InheritedKeys == {Constructor}

\* The reduce callback throws a TypeError on a spend transaction whose
\* merchant is undefined (undefined.toLowerCase()), and on one whose key is
\* inherited: acc[key] is then truthy, no group is created, and
\* acc[key].transactions is undefined (.push of undefined).
detectRaises(txs) ==
    \E i \in 1..Len(txs) :
        /\ lessThan(txs[i].amount, 0)
        /\ \/ txs[i].merchant = undefinedString
           \/ normalizedNameOf(txs[i]) \in InheritedKeys

\* a slip: the group arrays sorted in the caller's array (no copy by filter)
transactionsAfterDetectSorted(txs) == sortNewestFirst(txs)

\* a slip: the amounts made absolute in the caller's transactions
transactionsAfterDetectAbsolute(txs) ==
    [i \in 1..Len(txs) |-> [txs[i] EXCEPT !.amount = Abs(txs[i].amount)]]

\* The caller's array after a run: filter and reduce build new arrays, and
\* merchantTxs.sort sorts the group's own array, so the argument is as it was.
transactionsAfterDetect(txs) == txs

\* a slip: a placeholder entry returned for the empty list
useDetectedSubscriptionsPlaceholder(txs) ==
    IF Len(txs) = 0
    THEN << [ id |-> <<>>, merchant |-> <<>>, amount |-> [num |-> 0, den |-> 1],
              frequency |-> "monthly", lastPayment |-> LatestDay,
              nextEstimatedPayment |-> LatestDay, transactions |-> <<>>,
              confidence |-> 0, category |-> "Other", isActive |-> FALSE ] >>
    ELSE detectSubscriptions(txs)

\* useMemo: if (!transactions || transactions.length === 0) return []
useDetectedSubscriptions(txs) ==
    IF Len(txs) = 0 THEN <<>> ELSE detectSubscriptions(txs)

-----------------------------------------------------------------------------
(* The page's filters and its "billing soon" list *)

\* a slip: the high band starting above 90
filterSubscriptionsStrict(subs, statusFilter, frequencyFilter, confidence) ==
    LET byStatus ==
            IF statusFilter = "active" THEN SelectSeq(subs, LAMBDA sub : sub.isActive)
            ELSE IF statusFilter = "inactive" THEN SelectSeq(subs, LAMBDA sub : ~sub.isActive)
            ELSE subs
        byFrequency ==
            IF frequencyFilter # "all"
            THEN SelectSeq(byStatus, LAMBDA sub : sub.frequency = frequencyFilter)
            ELSE byStatus
    IN  IF confidence = "high"
        THEN SelectSeq(byFrequency, LAMBDA sub : sub.confidence > 90)
        ELSE IF confidence = "medium"
        THEN SelectSeq(byFrequency, LAMBDA sub : sub.confidence >= 60 /\ sub.confidence <= 90)
        ELSE IF confidence = "low"
        THEN SelectSeq(byFrequency, LAMBDA sub : sub.confidence < 60)
        ELSE byFrequency

\* useMemo: the status, frequency and confidence filters, applied in turn
filterSubscriptions(subs, statusFilter, frequencyFilter, confidence) ==
    LET byStatus ==
            IF statusFilter = "active" THEN SelectSeq(subs, LAMBDA sub : sub.isActive)
            ELSE IF statusFilter = "inactive" THEN SelectSeq(subs, LAMBDA sub : ~sub.isActive)
            ELSE subs
        byFrequency ==
            IF frequencyFilter # "all"
            THEN SelectSeq(byStatus, LAMBDA sub : sub.frequency = frequencyFilter)
            ELSE byStatus
    IN  IF confidence = "high"
        THEN SelectSeq(byFrequency, LAMBDA sub : sub.confidence >= 80)
        ELSE IF confidence = "medium"
        THEN SelectSeq(byFrequency, LAMBDA sub : sub.confidence >= 60 /\ sub.confidence < 80)
        ELSE IF confidence = "low"
        THEN SelectSeq(byFrequency, LAMBDA sub : sub.confidence < 60)
        ELSE byFrequency

\* a slip: the seventh day left out (daysUntilBilling < 7)
upcomingBillingExclusive(subs) ==
    SelectSeq(SelectSeq(subs, LAMBDA s : s.isActive),
              LAMBDA sub :
                  LET daysUntilBilling ==
                          differenceInDaysAt(sub.nextEstimatedPayment, 0, now, nowHours)
                  IN  daysUntilBilling < 7 /\ daysUntilBilling >= 0)

\* activeSubscriptions.filter(sub => daysUntilBilling <= 7 && daysUntilBilling >= 0)
upcomingBillingOf(subs) ==
    SelectSeq(SelectSeq(subs, LAMBDA s : s.isActive),
              LAMBDA sub :
                  LET daysUntilBilling ==
                          differenceInDaysAt(sub.nextEstimatedPayment, 0, now, nowHours)
                  IN  daysUntilBilling <= 7 /\ daysUntilBilling >= 0)

-----------------------------------------------------------------------------
(* ActiveSubscriptions, the dashboard card (two copies of the component) *)

TopN == 8   \* .slice(0, 8)

\* transaction.merchant.toLowerCase().trim() / transaction.name.toLowerCase().trim()
cardKey(label) == trim(toLowerCase(label))

\* amounts.every(amt => Math.abs(amt - avgAmount) <= 5)
isRecurring(amounts, avgAmount) ==
    \A i \in 1..Len(amounts) :
        Abs(amounts[i] * avgAmount.den - avgAmount.num) <= 5 * avgAmount.den

\* Math.abs(date[i-1] - date[i]) / (1000 * 60 * 60 * 24), every pair kept
cardDateDiffs(txs) ==
    [i \in 1..(Len(txs) - 1) |-> Abs(txs[i].date - txs[i + 1].date)]

\* let frequency = 'Unknown'; the if / else-if chain over avgDiff
cardFrequency(avgDiff) ==
    IF within(avgDiff, 28, 35) THEN "Monthly"
    ELSE IF within(avgDiff, 6, 8) THEN "Weekly"
    ELSE IF within(avgDiff, 85, 95) THEN "Quarterly"
    ELSE IF within(avgDiff, 360, 370) THEN "Yearly"
    ELSE "Unknown"

\* .sort((a, b) => b.amount - a.amount).slice(0, 8)
largestFirst(subs) ==
    LET sorted == StableSort(subs, [i \in 1..Len(subs) |-> [j \in 1..Len(subs) |->
                          subs[j].amount.num * subs[i].amount.den
                              < subs[i].amount.num * subs[j].amount.den]])
    IN  SubSeq(sorted, 1, IF Len(sorted) < TopN THEN Len(sorted) ELSE TopN)

\* client copy, the forEach callback: pushes only when frequency !== 'Unknown'
clientCardGroup(txsRaw) ==
    LET txs       == sortNewestFirst(txsRaw)
        amounts   == [i \in 1..Len(txs) |-> Abs(txs[i].amount)]
        avgAmount == mean(amounts)
        frequency == cardFrequency(mean(cardDateDiffs(txs)))
    IN  IF Len(txsRaw) >= 2 /\ isRecurring(amounts, avgAmount) /\ frequency # "Unknown"
        THEN << [ name        |-> txs[1].merchant,
                  amount      |-> avgAmount,
                  lastPayment |-> txs[1].date,
                  frequency   |-> frequency,
                  count       |-> Len(txs) ] >>
        ELSE <<>>

\* client copy of the memo.  itemId is the optional prop (NULL when absent).
clientActiveSubscriptions(transactions, itemId) ==
    LET filteredTransactions ==
            IF itemId # NULL
            THEN SelectSeq(transactions, LAMBDA t : t.account_id # NULL)
            ELSE transactions
        spend == outflow(filteredTransactions)
        keyOf == [i \in 1..Len(spend) |-> cardKey(spend[i].merchant)]
        keys  == ownKeys(insertionKeys(keyOf))
    IN  IF Len(transactions) = 0 THEN <<>>
        ELSE largestFirst(
                Flatten([k \in 1..Len(keys) |->
                    clientCardGroup(membersOf(spend, keyOf, keys[k]))]))

\* root copy, the forEach callback: pushes whatever the frequency is
rootCardGroup(transactions) ==
    LET txs       == sortNewestFirst(transactions)
        amounts   == [i \in 1..Len(txs) |-> txs[i].amount]
        avgAmount == mean(amounts)
        frequency == cardFrequency(mean(cardDateDiffs(txs)))
    IN  IF Len(transactions) >= 2 /\ isRecurring(amounts, avgAmount)
        THEN << [ name        |-> txs[1].name,
                  amount      |-> avgAmount,
                  lastPayment |-> txs[1].date,
                  frequency   |-> frequency,
                  count       |-> Len(txs) ] >>
        ELSE <<>>

\* The reduce callbacks of the two copies throw like that of
\* detectSubscriptions: on an undefined label, and on an inherited key
\* (acc[name].push is not a function).
clientCardRaises(txs) ==
    \E i \in 1..Len(txs) :
        /\ lessThan(txs[i].amount, 0)
        /\ \/ txs[i].merchant = undefinedString
           \/ cardKey(txs[i].merchant) \in InheritedKeys

rootCardRaises(plaidTxs) ==
    \E i \in 1..Len(plaidTxs) :
        /\ lessThan(0, plaidTxs[i].amount)
        /\ \/ plaidTxs[i].name = undefinedString
           \/ cardKey(plaidTxs[i].name) \in InheritedKeys

\* root copy of the memo, over the provider's own records (spending > 0)
rootActiveSubscriptions(plaidTxs) ==
    LET spend == SelectSeq(plaidTxs, LAMBDA t : lessThan(0, t.amount))
        keyOf == [i \in 1..Len(spend) |-> cardKey(spend[i].name)]
        keys  == ownKeys(insertionKeys(keyOf))
    IN  largestFirst(
            Flatten([k \in 1..Len(keys) |->
                rootCardGroup(membersOf(spend, keyOf, keys[k]))]))

-----------------------------------------------------------------------------
(* The provider feeds *)

Feeds == {"regular", "cadence", "amounts", "merchants", "calendar", "activity", "twins"}

\* gaps of the irregular single-merchant feed
CadenceGaps == {0, 7, 25, 30, 31, 35, 36, 60}

\* amounts of the amounts feed, in the provider's sign: charges, and a refund
AmountChoices == {-10, 9, 10, 11, 20, 25}

Nf == <<"N", "f">>

plaidTransaction(name, merchant_name, amount, date, category) ==
    [ transaction_id |-> Len(data) + 1,
      name           |-> name,
      merchant_name  |-> merchant_name,
      amount         |-> amount,
      date           |-> date,
      category       |-> category,
      account_id     |-> "acc-1" ]

\* charges of the merchants feed: two spellings of one merchant, a merchant
\* whose record carries merchant_name and a category, and a merchant whose
\* key is integer-like
MerchantCharges ==
    { plaidTransaction(Nf, <<>>, 10, LatestDay, <<>>),
      plaidTransaction(<<" ", "n", "f", "!">>, <<>>, 10, LatestDay - 30, <<"Streaming">>),
      plaidTransaction(<<"P", "O", "S">>, <<"H", "u">>, 20, LatestDay, <<"Streaming">>),
      plaidTransaction(<<"P", "O", "S">>, <<"H", "u">>, 20, LatestDay - 30, <<"Streaming">>),
      plaidTransaction(<<"7", "-", "1">>, <<>>, 5, LatestDay, <<>>),
      plaidTransaction(<<"7", "-", "1">>, <<>>, 5, LatestDay - 7, <<>>),
      plaidTransaction(<<"7", "-", "1">>, <<>>, 5, LatestDay - 30, <<>>) }

\* labels of the twins feed: two spellings of one merchant, and another merchant
TwinLabels == { Nf, <<"N", "F", " ", "!">>, <<"H", "u">> }

\* charges of the twins feed already delivered for the merchant of a label
twinCharges(label) ==
    Cardinality({i \in 1..Len(data) :
        trim(stripSymbols(toLowerCase(data[i].name)))
            = trim(stripSymbols(toLowerCase(label)))})

\* the provider has already delivered this charge (a charge is delivered once)
delivered(plaidTx) ==
    \E i \in 1..Len(data) :
        data[i].name = plaidTx.name /\ data[i].date = plaidTx.date

\* date of the next charge of a newest-first feed
nextOlder(gap) == IF data = <<>> THEN LatestDay ELSE data[Len(data)].date - gap

\* newest charges of the calendar feed: mid-month, month ends, a leap day
CalendarDays ==
    { dayNumber(2024, 1, 15), dayNumber(2024, 1, 31), dayNumber(2024, 2, 29),
      dayNumber(2023, 11, 30), dayNumber(2023, 12, 31) }

\* periods of the calendar feed
CalendarPeriods == {7, 30, 91, 365}

\* gaps of the activity feed, and the days since its newest charge
ActivityGaps == {0, 30, 31}
ElapsedChoices == {23, 31, 40, 45, 46, 50}

\* the days on which the page may be opened
Today(f) ==
    IF f = "activity" THEN {LatestDay + elapsed : elapsed \in ElapsedChoices}
    ELSE {LatestDay + 3}

\* the hours past midnight at which the page may be opened
Hours(f) == IF f = "activity" THEN {0, 10} ELSE {10}

\* the values of the confidence select
ConfidenceFilters == {"all", "high", "medium", "low"}

-----------------------------------------------------------------------------
(* The stores and the payment handler, as created *)

\* useStore: transactions: []
StoreCreated == storeTransactions = <<>>

\* useAuth: user, session and profile null, isLoading true, isInitialized
\* false; nothing is registered or in flight.  The auth service may hold a
\* session persisted by an earlier visit.
AuthCreated(persisted) ==
    /\ user = NULL
    /\ session = NULL
    /\ profile = NULL
    /\ isLoading = TRUE
    /\ isInitialized = FALSE
    /\ authListener = FALSE
    /\ serverSession = persisted
    /\ authEvents = <<>>
    /\ profileTimers = 0
    /\ profileFetches = {}
    /\ initializePc = "idle"
    /\ signInPc = "idle"
    /\ signOutPc = "idle"
    /\ signIns = 0
    /\ signOuts = 0

\* PaymentSuccessHandler mounts: handled = useRef(false), the effect is due,
\* no poll is running.
HandlerMounted(successUrl, userId) ==
    /\ mounted = TRUE
    /\ paymentSuccess = successUrl
    /\ handlerUserId = userId
    /\ handled = FALSE
    /\ effectPending = TRUE
    /\ strictReruns = 0
    /\ redirects = 0
    /\ isPro = FALSE
    /\ pollPc = "idle"
    /\ pollIndex = 0
    /\ pollResults = <<>>
    /\ pollRefetches = 0
    /\ handledCount = 0
    /\ location = "/"

\* the Subscriptions page and the cards before any data has arrived
PageCreated ==
    /\ feed = "none"
    /\ now = LatestDay + 3
    /\ nowHours = 10
    /\ data = <<>>
    /\ pageTransactions = transactionsAfterDetect(useTransformedTransactions(<<>>))
    /\ detectedSubscriptions = useDetectedSubscriptions(useTransformedTransactions(<<>>))
    /\ clientSubscriptions = clientActiveSubscriptions(useTransformedTransactions(<<>>), NULL)
    /\ rootSubscriptions = rootActiveSubscriptions(<<>>)
    /\ renderError = {}
    /\ confidenceFilter = "all"
    /\ filteredSubscriptions = filterSubscriptions(detectedSubscriptions, "all", "all", "all")
    /\ upcomingBilling = upcomingBillingOf(detectedSubscriptions)

-----------------------------------------------------------------------------
(* State machine *)

\* Before the query resolves data is undefined, (data?.transactions || [])
\* is the empty list, and the memos run on it.
Init ==
    /\ feed \in Feeds
    /\ now \in Today(feed)
    /\ nowHours \in Hours(feed)
    /\ data = <<>>
    /\ pageTransactions = transactionsAfterDetect(useTransformedTransactions(<<>>))
    /\ detectedSubscriptions = useDetectedSubscriptions(useTransformedTransactions(<<>>))
    /\ clientSubscriptions = clientActiveSubscriptions(useTransformedTransactions(<<>>), NULL)
    /\ rootSubscriptions = rootActiveSubscriptions(<<>>)
    /\ renderError = {}
    /\ confidenceFilter = "all"
    /\ filteredSubscriptions = filterSubscriptions(detectedSubscriptions, "all", "all", "all")
    /\ upcomingBilling = upcomingBillingOf(detectedSubscriptions)
    /\ StoreCreated /\ AuthCreated(NULL) /\ HandlerMounted(FALSE, NULL)

\* The query delivers a list one transaction longer; the components render
\* and the three memos recompute.
Receive(plaidTx) ==
    LET received == Append(data, plaidTx)
        transformedTransactions == useTransformedTransactions(received)
    IN  /\ data' = received
        /\ pageTransactions' = transactionsAfterDetect(transformedTransactions)
        /\ detectedSubscriptions' =
               IF detectRaises(transformedTransactions) THEN <<>>
               ELSE useDetectedSubscriptions(transformedTransactions)
        /\ filteredSubscriptions' =
               filterSubscriptions(detectedSubscriptions', "all", "all", confidenceFilter)
        /\ upcomingBilling' = upcomingBillingOf(detectedSubscriptions')
        /\ clientSubscriptions' =
               IF clientCardRaises(transformedTransactions) THEN <<>>
               ELSE clientActiveSubscriptions(transformedTransactions, NULL)
        /\ rootSubscriptions' =
               IF rootCardRaises(received) THEN <<>>
               ELSE rootActiveSubscriptions(received)
        /\ renderError' =
               {c \in {"Subscriptions"} : detectRaises(transformedTransactions)}
               \cup {c \in {"ActiveSubscriptions (client)"} :
                         clientCardRaises(transformedTransactions)}
               \cup {c \in {"ActiveSubscriptions (root)"} : rootCardRaises(received)}
        /\ UNCHANGED <<feed, now, nowHours, confidenceFilter>>
        /\ UNCHANGED <<storeVars, authVars, paymentVars>>

\* one merchant charged at a fixed period: any period for up to three
\* charges, the canonical periods for longer histories
FetchRegular ==
    /\ feed = "regular"
    /\ Len(data) < MaxRun
    /\ \E gap \in 0..MaxGap :
        /\ Len(data) = 0 => gap = 0
        /\ Len(data) >= 2 => gap = data[Len(data) - 1].date - data[Len(data)].date
        /\ Len(data) >= 3 => gap \in CalendarPeriods
        /\ Receive(plaidTransaction(Nf, <<>>, 10, nextOlder(gap), <<>>))

\* one merchant charged at irregular gaps
FetchCadence ==
    /\ feed = "cadence"
    /\ Len(data) < MaxTx
    /\ \E gap \in CadenceGaps :
        /\ Len(data) = 0 => gap = 0
        /\ Receive(plaidTransaction(Nf, <<>>, 10, nextOlder(gap), <<>>))

\* one merchant charged every 30 days, at varying amounts
FetchAmounts ==
    /\ feed = "amounts"
    /\ Len(data) < MaxTx
    /\ \E amount \in AmountChoices :
        Receive(plaidTransaction(Nf, <<>>, amount, nextOlder(30), <<>>))

\* several merchants, in any order of arrival
FetchMerchants ==
    /\ feed = "merchants"
    /\ Len(data) < MaxTx
    /\ \E plaidTx \in MerchantCharges :
        /\ ~delivered(plaidTx)
        /\ Receive(plaidTx)

\* one merchant charged at a fixed period, the newest charge on a chosen
\* calendar day
FetchCalendar ==
    /\ feed = "calendar"
    /\ Len(data) < MaxTx
    /\ \E day \in CalendarDays, period \in CalendarPeriods :
        /\ Len(data) >= 1 => day = data[1].date
        /\ Len(data) >= 2 => period = data[Len(data) - 1].date - data[Len(data)].date
        /\ Receive(plaidTransaction(Nf, <<>>, 10,
                       IF data = <<>> THEN day ELSE data[Len(data)].date - period, <<>>))

\* one merchant charged about monthly, the page opened some weeks later
FetchActivity ==
    /\ feed = "activity"
    /\ Len(data) < MaxTx
    /\ \E gap \in ActivityGaps :
        /\ Len(data) = 0 => gap = 0
        /\ Receive(plaidTransaction(Nf, <<>>, 10, nextOlder(gap), <<>>))

\* two merchants charged every 30 days, their charges arriving interleaved
FetchTwins ==
    /\ feed = "twins"
    /\ Len(data) < MaxTwin
    /\ \E label \in TwinLabels :
        Receive(plaidTransaction(label, <<>>, 10,
                                 LatestDay - 30 * twinCharges(label), <<>>))

\* React recomputes the memo with its dependency unchanged: detectSubscriptions
\* runs again on the array the previous run was given.
Rerun ==
    /\ "Subscriptions" \notin renderError
    /\ detectedSubscriptions' = useDetectedSubscriptions(pageTransactions)
    /\ pageTransactions' = transactionsAfterDetect(pageTransactions)
    /\ filteredSubscriptions' =
           filterSubscriptions(detectedSubscriptions', "all", "all", confidenceFilter)
    /\ upcomingBilling' = upcomingBillingOf(detectedSubscriptions')
    /\ UNCHANGED <<feed, now, nowHours, data, clientSubscriptions, rootSubscriptions,
                   renderError, confidenceFilter>>
    /\ UNCHANGED <<storeVars, authVars, paymentVars>>

\* setConfidenceFilter: the user picks a confidence band (explored on the
\* calendar feed); the filter memo recomputes.
SetConfidenceFilter ==
    /\ feed = "calendar"
    /\ \E value \in ConfidenceFilters :
        /\ value # confidenceFilter
        /\ confidenceFilter' = value
        /\ filteredSubscriptions' =
               filterSubscriptions(detectedSubscriptions, "all", "all", value)
    /\ UNCHANGED <<feed, now, nowHours, data, pageTransactions, detectedSubscriptions,
                   clientSubscriptions, rootSubscriptions, renderError, upcomingBilling>>
    /\ UNCHANGED <<storeVars, authVars, paymentVars>>

Next ==
    \/ FetchRegular \/ FetchCadence \/ FetchAmounts \/ FetchMerchants
    \/ FetchCalendar \/ FetchActivity \/ FetchTwins
    \/ Rerun \/ SetConfidenceFilter

Spec == Init /\ [][Next]_vars

-----------------------------------------------------------------------------
(* Records outside the input contract *)

\* charges of the edge feed: a record with no label, two labels made of
\* symbols only, a record whose amount is not a number, a merchant named
\* Constructor, and a well-formed monthly pair
EdgeCharges ==
    { plaidTransaction(undefinedString, <<>>, 10, LatestDay, <<>>),
      plaidTransaction(<<"*", "*", "*">>, <<>>, 10, LatestDay, <<>>),
      plaidTransaction(<<"#">>, <<>>, 10, LatestDay - 30, <<>>),
      plaidTransaction(Nf, <<>>, NotANumber, LatestDay - 60, <<>>),
      plaidTransaction(<<"C">> \o SubSeq(Constructor, 2, Len(Constructor)), <<>>, 10,
                       LatestDay, <<>>),
      plaidTransaction(Nf, <<>>, 10, LatestDay, <<>>),
      plaidTransaction(Nf, <<>>, 10, LatestDay - 30, <<>>) }

InitEdge ==
    /\ feed = "edge"
    /\ now \in Today(feed)
    /\ nowHours \in Hours(feed)
    /\ data = <<>>
    /\ pageTransactions = transactionsAfterDetect(useTransformedTransactions(<<>>))
    /\ detectedSubscriptions = useDetectedSubscriptions(useTransformedTransactions(<<>>))
    /\ clientSubscriptions = clientActiveSubscriptions(useTransformedTransactions(<<>>), NULL)
    /\ rootSubscriptions = rootActiveSubscriptions(<<>>)
    /\ renderError = {}
    /\ confidenceFilter = "all"
    /\ filteredSubscriptions = filterSubscriptions(detectedSubscriptions, "all", "all", "all")
    /\ upcomingBilling = upcomingBillingOf(detectedSubscriptions)
    /\ StoreCreated /\ AuthCreated(NULL) /\ HandlerMounted(FALSE, NULL)

\* several merchants and malformed records, in any order of arrival
FetchEdge ==
    /\ feed = "edge"
    /\ Len(data) < MaxTx
    /\ \E plaidTx \in EdgeCharges : Receive(plaidTx)

NextEdge == FetchEdge \/ Rerun

SpecEdge == InitEdge /\ [][NextEdge]_vars

-----------------------------------------------------------------------------
(* Vocabulary of the properties, computed from the input and the outputs   *)
(* without the detector's own steps                                        *)

appTransactions == useTransformedTransactions(data)

Buckets == {"weekly", "monthly", "quarterly", "yearly"}
CardBuckets == {"Weekly", "Monthly", "Quarterly", "Yearly"}

windowOf(frequency) ==
    CASE frequency = "weekly" -> <<6, 8>>
      [] frequency = "monthly" -> <<28, 35>>
      [] frequency = "quarterly" -> <<85, 95>>
      [] frequency = "yearly" -> <<360, 370>>

\* does the fraction num/den lie in the window of the bucket
inWindow(num, den, frequency) ==
    /\ windowOf(frequency)[1] * den <= num
    /\ num <= windowOf(frequency)[2] * den

\* the normalized key an emitted subscription stands for: its id without the
\* "-" and the frequency
keyOfSubscription(sub) == SubSeq(sub.id, 1, Len(sub.id) - 2)

Emitted == {detectedSubscriptions[i] : i \in 1..Len(detectedSubscriptions)}

inputKeys == {normalizedNameOf(appTransactions[i]) : i \in 1..Len(appTransactions)}

\* positions of the input's spend transactions of a key
qualifying(key) ==
    {i \in 1..Len(appTransactions) :
        /\ lessThan(appTransactions[i].amount, 0)
        /\ normalizedNameOf(appTransactions[i]) = key}

absAmountsAt(positions) == [i \in positions |-> Abs(appTransactions[i].amount)]

RECURSIVE SumOver(_, _)
SumOver(f, S) ==
    IF S = {} THEN 0
    ELSE LET x == CHOOSE y \in S : TRUE IN f[x] + SumOver(f, S \ {x})

\* every amount of f over S is within tol/per of the mean of f over S
\* (per = 0: within tol units of the mean)
allNearMean(f, S, tol, per) ==
    LET sum == SumOver(f, S)
        n   == Cardinality(S)
    IN  \A i \in S :
            IF per = 0 THEN Abs(f[i] * n - sum) <= tol * n
            ELSE per * Abs(f[i] * n - sum) <= tol * sum

-----------------------------------------------------------------------------
(* C1 *)

\* C1: a normalized merchant key with fewer than 2 spend transactions in the
\* input has no entry in the output of detectSubscriptions, and every entry
\* carries at least 2 supporting transactions.
C1_NoUnderSampling ==
    /\ \A key \in inputKeys :
          Cardinality(qualifying(key)) < 2 =>
              \A sub \in Emitted : keyOfSubscription(sub) # key
    /\ \A sub \in Emitted : Len(sub.transactions) >= 2

\* a key with two transactions of which only one is a spend, and no entry
C1_Witness ==
    \E key \in inputKeys :
        /\ Cardinality(qualifying(key)) = 1
        /\ Cardinality({i \in 1..Len(appTransactions) :
                           normalizedNameOf(appTransactions[i]) = key}) >= 2
        /\ \A sub \in Emitted : keyOfSubscription(sub) # key

-----------------------------------------------------------------------------
(* C2 *)

\* C2: every entry emitted by detectSubscriptions and by both copies of
\* ActiveSubscriptions has one of the four canonical frequencies; a group
\* whose average gap is in no window is never emitted as 'Unknown'.
C2_CanonicalFrequency ==
    /\ \A sub \in Emitted : sub.frequency \in Buckets
    /\ \A i \in 1..Len(clientSubscriptions) :
          clientSubscriptions[i].frequency \in CardBuckets
    /\ \A i \in 1..Len(rootSubscriptions) :
          rootSubscriptions[i].frequency \in CardBuckets

-----------------------------------------------------------------------------
(* C5 *)

\* the group an entry of a dashboard card stands for: the spend transactions
\* whose card key is the key of the entry's name
cardGroupOf(entry) ==
    {i \in 1..Len(appTransactions) :
        /\ appTransactions[i].amount < 0
        /\ cardKey(appTransactions[i].merchant) = cardKey(entry.name)}

historyAmounts == [i \in 1..Len(data) |-> data[i].amount]

\* C5: an entry is emitted only if every member's absolute amount is within
\* the tolerance of the group's mean absolute amount: 10% of the mean in
\* detectSubscriptions, 5 units in ActiveSubscriptions; the group of amounts
\* 10, 10, 10, 25 produces no entry.
C5_AmountGate ==
    /\ \A sub \in Emitted :
          allNearMean(absAmountsAt(qualifying(keyOfSubscription(sub))),
                      qualifying(keyOfSubscription(sub)), 1, 10)
    /\ \A i \in 1..Len(clientSubscriptions) :
          allNearMean(absAmountsAt(cardGroupOf(clientSubscriptions[i])),
                      cardGroupOf(clientSubscriptions[i]), 5, 0)
    /\ (feed = "amounts" /\ historyAmounts = <<10, 10, 10, 25>>) =>
          (detectedSubscriptions = <<>> /\ clientSubscriptions = <<>>)

\* the group 10, 10, 10, 25, charged monthly, emitted by neither detector
C5_Witness ==
    /\ feed = "amounts"
    /\ historyAmounts = <<10, 10, 10, 25>>
    /\ detectedSubscriptions = <<>>
    /\ clientSubscriptions = <<>>

-----------------------------------------------------------------------------
(* C7, C8 *)

\* the stacking sample-size bonus: 10 for each threshold the count reaches
sizeBonus(count) == 10 * Cardinality({threshold \in {3, 5, 10} : count >= threshold})

expectedConfidence(sub) ==
    LET raw == 60
               + (CASE sub.frequency = "monthly" -> 30
                    [] sub.frequency \in {"quarterly", "yearly"} -> 25
                    [] sub.frequency = "weekly" -> 20)
               + sizeBonus(Len(sub.transactions))
    IN  IF raw > 100 THEN 100 ELSE raw

\* C7: the emitted confidence is min(100, 60 + frequencyBonus + sizeBonus).
C7_ConfidenceScore ==
    \A sub \in Emitted : sub.confidence = expectedConfidence(sub)

\* four monthly charges: 60 + 30 + 10 = 100
C7_Witness ==
    \E sub \in Emitted :
        /\ sub.frequency = "monthly"
        /\ Len(sub.transactions) = 4
        /\ sub.confidence = 100

\* C8: every emitted subscription has an integer confidence in [0, 100].
C8_ConfidenceBounds ==
    \A sub \in Emitted : sub.confidence \in 0..100

\* an entry whose uncapped score is above 100 (monthly, 5 or more charges)
C8_Witness ==
    \E sub \in Emitted :
        /\ sub.frequency = "monthly"
        /\ Len(sub.transactions) >= 5
        /\ sub.confidence = 100

-----------------------------------------------------------------------------
(* Gaps of a group, from the days on which it was charged *)

SetMax(S) == CHOOSE x \in S : \A y \in S : y <= x
SetMin(S) == CHOOSE x \in S : \A y \in S : x <= y

daysAt(positions) == {appTransactions[i].date : i \in positions}

spanOf(days) == SetMax(days) - SetMin(days)

\* the gaps between consecutive distinct days
stepGaps(days) ==
    {d - SetMax({e \in days : e < d}) : d \in {x \in days : x # SetMin(days)}}

\* the day gaps of the n - 1 consecutive pairs of n date-sorted charges: the
\* step gaps, and 0 when two charges share a day; they add up to the span
pairGaps(days, n) == stepGaps(days) \cup (IF n > Cardinality(days) THEN {0} ELSE {})

\* every gap of the set is within 5 days of the mean sum/count
allWithinFive(gaps, sum, count) == \A g \in gaps : Abs(g * count - sum) <= 5 * count

\* the interval gate and the mapping over the nonzero gaps
nonzeroGapsPass(days) ==
    /\ Cardinality(days) >= 2
    /\ allWithinFive(stepGaps(days), spanOf(days), Cardinality(days) - 1)

nonzeroGapsMapped(days) ==
    \E bucket \in Buckets : inWindow(spanOf(days), Cardinality(days) - 1, bucket)

\* the interval gate and the mapping over all n - 1 gaps
pairGapsPass(days, n) == allWithinFive(pairGaps(days, n), spanOf(days), n - 1)

pairGapsMapped(days, n) == \E bucket \in Buckets : inWindow(spanOf(days), n - 1, bucket)

groupOf(sub) == qualifying(keyOfSubscription(sub))

\* the 10% amount gate over the spend transactions of a key
amountGatePasses(key) == allNearMean(absAmountsAt(qualifying(key)), qualifying(key), 1, 10)

\* positions in the output of the entries of a key
entriesOf(key) ==
    {i \in 1..Len(detectedSubscriptions) :
        keyOfSubscription(detectedSubscriptions[i]) = key}

-----------------------------------------------------------------------------
(* C3 *)

\* C3 as stated: detectSubscriptions emits a group only if every one of its
\* inter-charge day gaps is within 5 days of the group's average gap.
C3_EveryGapWithinFive ==
    \A sub \in Emitted :
        pairGapsPass(daysAt(groupOf(sub)), Cardinality(groupOf(sub)))

\* C3 as amended: detectSubscriptions emits a group only if every nonzero
\* inter-charge day gap is within 5 days of the mean of the nonzero gaps; one
\* outlier among them disqualifies the group.
C3_NonzeroGapsWithinFive ==
    \A sub \in Emitted : nonzeroGapsPass(daysAt(groupOf(sub)))

\* a group whose mean gap is in a window and which one outlier gap alone
\* disqualifies
C3_Witness ==
    /\ feed = "cadence"
    /\ Len(data) >= 3
    /\ nonzeroGapsMapped(daysAt(1..Len(data)))
    /\ ~nonzeroGapsPass(daysAt(1..Len(data)))
    /\ detectedSubscriptions = <<>>

-----------------------------------------------------------------------------
(* C4 *)

\* C4 as stated: the gap samples are the gaps of all n - 1 consecutive pairs,
\* same-day pairs included, and the gate and the average are computed over
\* them; so what is emitted passes the gate and lies in its window over all
\* n - 1 gaps, and charges on days d, d, d - 30 are rejected.
C4_AllPairGapsSampled ==
    \A sub \in Emitted :
        /\ pairGapsPass(daysAt(groupOf(sub)), Cardinality(groupOf(sub)))
        /\ inWindow(spanOf(daysAt(groupOf(sub))), Cardinality(groupOf(sub)) - 1,
                    sub.frequency)

\* C4 as amended: the gap samples are the gaps of the consecutive pairs that
\* fall on different days; same-day pairs add no sample, and the gate and
\* the average are computed over the samples alone.  So a group of two or
\* more charges of consistent amounts is emitted exactly when the gaps
\* between its distinct days pass the gate and their mean lies in a window,
\* however many charges share a day.
C4_SameDayPairsSkipped ==
    \A key \in inputKeys :
        (Cardinality(qualifying(key)) >= 2 /\ amountGatePasses(key)) =>
            ( entriesOf(key) # {}
              <=> /\ nonzeroGapsPass(daysAt(qualifying(key)))
                  /\ nonzeroGapsMapped(daysAt(qualifying(key))) )

\* two charges on one day and a third 30 days earlier: emitted as monthly
C4_Witness ==
    /\ feed = "cadence"
    /\ [i \in 1..Len(data) |-> data[i].date]
          = <<LatestDay, LatestDay, LatestDay - 30>>
    /\ Len(detectedSubscriptions) = 1
    /\ detectedSubscriptions[1].frequency = "monthly"

-----------------------------------------------------------------------------
(* C6 *)

\* C6 as stated: the emitted frequency is the bucket whose window holds the
\* mean of the group's n - 1 gaps.
C6_BucketOfMeanPairGap ==
    \A sub \in Emitted : \A bucket \in Buckets :
        sub.frequency = bucket
            <=> inWindow(spanOf(daysAt(groupOf(sub))),
                         Cardinality(groupOf(sub)) - 1, bucket)

\* C6 as amended: the emitted frequency is weekly iff 6 <= avgGap <= 8,
\* monthly iff 28 <= avgGap <= 35, quarterly iff 85 <= avgGap <= 95, yearly
\* iff 360 <= avgGap <= 370, avgGap being the mean of the nonzero gaps.
C6_BucketOfMeanNonzeroGap ==
    \A sub \in Emitted : \A bucket \in Buckets :
        sub.frequency = bucket
            <=> inWindow(spanOf(daysAt(groupOf(sub))),
                         Cardinality(daysAt(groupOf(sub))) - 1, bucket)

\* an entry whose mean gap is a fraction just inside a window (30.5 days)
C6_Witness ==
    \E sub \in Emitted :
        /\ sub.frequency = "monthly"
        /\ 2 * spanOf(daysAt(groupOf(sub)))
              = 61 * (Cardinality(daysAt(groupOf(sub))) - 1)

-----------------------------------------------------------------------------
(* C9 *)

firstAt(key) == SetMin(qualifying(key))

\* Object.entries order of two keys of the input
enumeratedBefore(k1, k2) ==
    IF isArrayIndex(k1)
    THEN ~isArrayIndex(k2) \/ numericValue(k1) < numericValue(k2)
    ELSE ~isArrayIndex(k2) /\ firstAt(k1) < firstAt(k2)

\* C9 as stated: the list is sorted by confidence descending, entries of equal
\* confidence by average amount descending.
C9_TiesByAmount ==
    \A i, j \in 1..Len(detectedSubscriptions) :
        i < j =>
            LET a == detectedSubscriptions[i]
                b == detectedSubscriptions[j]
            IN  \/ a.confidence > b.confidence
                \/ /\ a.confidence = b.confidence
                   /\ a.amount.num * b.amount.den >= b.amount.num * a.amount.den

\* C9 as amended: the list is sorted by confidence descending, and entries of
\* equal confidence keep the order in which their groups are enumerated
\* (integer-like keys in ascending numeric order, then the other keys by
\* first occurrence in the input), whatever their average amounts.
C9_TiesByEnumeration ==
    \A i, j \in 1..Len(detectedSubscriptions) :
        i < j =>
            LET a == detectedSubscriptions[i]
                b == detectedSubscriptions[j]
            IN  \/ a.confidence > b.confidence
                \/ /\ a.confidence = b.confidence
                   /\ enumeratedBefore(keyOfSubscription(a), keyOfSubscription(b))

\* two entries of equal confidence, the smaller average amount first
C9_Witness ==
    \E i, j \in 1..Len(detectedSubscriptions) :
        /\ i < j
        /\ detectedSubscriptions[i].confidence = detectedSubscriptions[j].confidence
        /\ detectedSubscriptions[i].amount.num * detectedSubscriptions[j].amount.den
              < detectedSubscriptions[j].amount.num * detectedSubscriptions[i].amount.den

-----------------------------------------------------------------------------
(* C10 *)

\* C10 as stated: a key has an entry iff its group passes the four gates:
\* size >= 2, amount consistency, interval consistency and a mapped
\* frequency, the last two over the gaps of all consecutive pairs.
C10_FourGates ==
    \A key \in inputKeys :
        entriesOf(key) # {}
            <=> /\ Cardinality(qualifying(key)) >= 2
                /\ amountGatePasses(key)
                /\ pairGapsPass(daysAt(qualifying(key)), Cardinality(qualifying(key)))
                /\ pairGapsMapped(daysAt(qualifying(key)), Cardinality(qualifying(key)))

\* C10 as amended: in detectSubscriptions a key has an entry, exactly one and
\* backed by its whole group, iff its group passes the four gates, interval
\* consistency and the mapped frequency being taken over the nonzero gaps
\* (at least one is needed); no other entry is emitted and none is cut off.
C10_FourGatesNonzeroGaps ==
    /\ \A key \in inputKeys :
          IF /\ Cardinality(qualifying(key)) >= 2
             /\ amountGatePasses(key)
             /\ nonzeroGapsPass(daysAt(qualifying(key)))
             /\ nonzeroGapsMapped(daysAt(qualifying(key)))
          THEN /\ Cardinality(entriesOf(key)) = 1
               /\ \A i \in entriesOf(key) :
                     Len(detectedSubscriptions[i].transactions)
                         = Cardinality(qualifying(key))
          ELSE entriesOf(key) = {}
    /\ \A sub \in Emitted : keyOfSubscription(sub) \in inputKeys

\* one key with an entry beside a key with two spend transactions and none
C10_Witness ==
    \E k1, k2 \in inputKeys :
        /\ entriesOf(k1) # {}
        /\ Cardinality(qualifying(k2)) >= 2
        /\ entriesOf(k2) = {}

-----------------------------------------------------------------------------
(* Projection of the next charge *)

monthsOf(frequency) ==
    CASE frequency = "monthly" -> 1
      [] frequency = "quarterly" -> 3
      [] frequency = "yearly" -> 12

\* months since year 0 of the month a day falls in
monthIndexOf(day) == calendarDate(day).year * 12 + calendarDate(day).month - 1

\* the most recent charge date of an emitted subscription's group
mostRecentCharge(sub) == SetMax(daysAt(groupOf(sub)))

\* C11: nextEstimatedPayment is the most recent charge date of the group plus
\* one canonical period: 7 days for weekly, and 1, 3 or 12 calendar months for
\* monthly, quarterly and yearly, the day of the month kept, or clamped to the
\* last day of the target month when that month is shorter (2024-01-15 monthly
\* gives 2024-02-15; 2024-01-31 monthly gives 2024-02-29, not a March date).
C11_NextEstimatedPayment ==
    \A sub \in Emitted :
        LET last == mostRecentCharge(sub)
            next == sub.nextEstimatedPayment
            from == calendarDate(last)
            to   == calendarDate(next)
            length == getDaysInMonth(to.year, to.month)
        IN  /\ sub.frequency = "weekly" => next = last + 7
            /\ sub.frequency # "weekly" =>
                /\ monthIndexOf(next) = monthIndexOf(last) + monthsOf(sub.frequency)
                /\ to.date = IF from.date < length THEN from.date ELSE length
            /\ (sub.frequency = "monthly" /\ last = dayNumber(2024, 1, 15))
                   => next = dayNumber(2024, 2, 15)
            /\ (sub.frequency = "monthly" /\ last = dayNumber(2024, 1, 31))
                   => next = dayNumber(2024, 2, 29)

\* a monthly subscription last charged on 2024-01-31 is projected to 2024-02-29
C11_Witness ==
    \E sub \in Emitted :
        /\ sub.frequency = "monthly"
        /\ sub.lastPayment = dayNumber(2024, 1, 31)
        /\ calendarDate(sub.nextEstimatedPayment) = [year |-> 2024, month |-> 2, date |-> 29]

-----------------------------------------------------------------------------
(* Activity *)

\* days elapsed between now and the most recent charge of the group
elapsedSince(sub) == now - mostRecentCharge(sub)

\* C12 as stated: isActive is true exactly when the days elapsed between now
\* and the last payment are at most 1.5 times the group's average gap, the
\* mean of the gaps between consecutive charges (span / (charges - 1)).
C12_ActiveWithinBuffer ==
    \A sub \in Emitted :
        sub.isActive <=>
            2 * elapsedSince(sub) * (Cardinality(groupOf(sub)) - 1)
                <= 3 * spanOf(daysAt(groupOf(sub)))

\* C12, amended: isActive is true exactly when the days elapsed between now
\* and the last payment are at most 1.5 times the mean of the group's nonzero
\* gaps (span / (distinct charge days - 1)): with a mean of 30 days, a last
\* payment 40 days ago is active and one 50 days ago is not.
C12_ActiveWithinBufferOfNonzeroGaps ==
    \A sub \in Emitted :
        LET days == daysAt(groupOf(sub))
        IN  /\ sub.isActive <=>
                2 * elapsedSince(sub) * (Cardinality(days) - 1) <= 3 * spanOf(days)
            /\ spanOf(days) = 30 * (Cardinality(days) - 1) =>
                /\ elapsedSince(sub) = 40 => sub.isActive
                /\ elapsedSince(sub) = 50 => ~sub.isActive

\* a subscription charged every 30 days, last paid 50 days ago, is inactive
C12_Witness ==
    \E sub \in Emitted :
        /\ spanOf(daysAt(groupOf(sub))) = 30 * (Cardinality(daysAt(groupOf(sub))) - 1)
        /\ elapsedSince(sub) = 50
        /\ ~sub.isActive

-----------------------------------------------------------------------------
(* Determinism *)

-----------------------------------------------------------------------------
(* Malformed records and empty keys *)

\* a record with a label and a finite amount
wellFormed(t) == t.merchant # undefinedString /\ t.amount # NotANumber

\* C14: a list containing records with a missing merchant label or a
\* non-finite amount never makes the detection throw, and no such record is
\* among the supporting transactions of an emitted subscription.
C14_MalformedNeverRaise ==
    /\ "Subscriptions" \notin renderError
    /\ \A sub \in Emitted :
           \A i \in 1..Len(sub.transactions) : wellFormed(sub.transactions[i])

\* C15: no emitted subscription has the empty string as its key, even when
\* two or more transactions whose labels normalize to it pass the gates.
C15_NoEmptyKey ==
    \A sub \in Emitted : keyOfSubscription(sub) # <<>>

-----------------------------------------------------------------------------
(* Empty input *)

\* C16: when the transaction list is empty, or the query has no data yet, the
\* detection returns the empty list (no placeholder entry) and does not throw.
C16_EmptyInputEmptyOutput ==
    Len(data) = 0 =>
        /\ detectedSubscriptions = <<>>
        /\ "Subscriptions" \notin renderError

\* the memo has run on the empty list
C16_Witness ==
    /\ Len(data) = 0
    /\ pageTransactions = <<>>
    /\ detectedSubscriptions = useDetectedSubscriptions(pageTransactions)
    /\ Len(detectedSubscriptions) = 0

-----------------------------------------------------------------------------
(* Display name and category *)

\* labels of the most recent transactions of an emitted subscription's group
newestLabels(sub) ==
    {appTransactions[i].merchant :
        i \in {j \in groupOf(sub) : appTransactions[j].date = mostRecentCharge(sub)}}

\* the first transaction of the group, in the order of the input
firstOf(sub) == SetMin(groupOf(sub))

\* C17 as stated: the merchant of an emitted subscription is the label, in
\* its original casing, of the most recent transaction of its group, in
\* whatever order the group's transactions appear in the input.
C17_NameOfMostRecent ==
    \A sub \in Emitted : sub.merchant \in newestLabels(sub)

\* C17, amended: the merchant of an emitted subscription is the label, in its
\* original casing, of the first transaction of its group in the order of the
\* input, whatever the dates.
C17_NameOfFirstInInput ==
    \A sub \in Emitted :
        /\ sub.merchant = appTransactions[firstOf(sub)].merchant
        /\ sub.merchant = orElse(data[firstOf(sub)].merchant_name, data[firstOf(sub)].name)

\* a subscription named after an older transaction that came first in the
\* input, spelled differently from the most recent one
C17_Witness ==
    \E sub \in Emitted :
        /\ appTransactions[firstOf(sub)].date < mostRecentCharge(sub)
        /\ sub.merchant = appTransactions[firstOf(sub)].merchant
        /\ sub.merchant \notin newestLabels(sub)

\* C18 as stated: the category of an emitted subscription is the first
\* non-empty category among the transactions of its group, and 'Other' only
\* when none of them has one.
C18_FirstNonEmptyCategory ==
    \A sub \in Emitted :
        LET categorized == {i \in groupOf(sub) : data[i].category # <<>>}
        IN  sub.category = IF categorized = {} THEN "Other"
                           ELSE data[SetMin(categorized)].category[1]

\* C18, amended: the category of an emitted subscription is the category of
\* the first transaction of its group in the order of the input, and 'Other'
\* when that transaction has none; the later transactions are not consulted.
C18_CategoryOfFirstInInput ==
    \A sub \in Emitted :
        sub.category = IF data[firstOf(sub)].category = <<>> THEN "Other"
                       ELSE data[firstOf(sub)].category[1]

\* a group whose first transaction has no category and whose second has
\* 'Streaming' is emitted as 'Other'
C18_Witness ==
    \E sub \in Emitted :
        /\ data[firstOf(sub)].category = <<>>
        /\ \E i \in groupOf(sub) : data[i].category = <<"Streaming">>
        /\ sub.category = "Other"

-----------------------------------------------------------------------------
(* Outflow filter *)

\* the input without the transactions that are not spending
spendOnly == SelectSeq(appTransactions, LAMBDA t : t.amount < 0)

\* C19: only spending (app amount < 0, a positive amount of the provider) is
\* grouped: no other transaction is among the supporting transactions of an
\* emitted subscription, and the output is the output for the same list
\* without them, so that adding or removing them changes nothing.
C19_OnlySpendCounts ==
    /\ \A sub \in Emitted :
           \A i \in 1..Len(sub.transactions) :
               /\ sub.transactions[i].amount < 0
               /\ data[sub.transactions[i].id].amount > 0
    /\ detectedSubscriptions = useDetectedSubscriptions(spendOnly)

\* a subscription is emitted for a merchant that also has a refund in the
\* input, and the refund is not among its supporting transactions
C19_Witness ==
    \E sub \in Emitted :
        \E i \in 1..Len(appTransactions) :
            /\ appTransactions[i].amount > 0
            /\ normalizedNameOf(appTransactions[i]) = keyOfSubscription(sub)
            /\ \A j \in 1..Len(sub.transactions) :
                   sub.transactions[j].id # appTransactions[i].id

-----------------------------------------------------------------------------
(* Order of the supporting transactions *)

\* C20: the supporting transactions of an emitted subscription are in order
\* of date, newest first, and lastPayment is the latest date of its group, in
\* whatever order the transactions appear in the input.
C20_NewestFirst ==
    \A sub \in Emitted :
        /\ \A i \in 1..(Len(sub.transactions) - 1) :
               sub.transactions[i].date >= sub.transactions[i + 1].date
        /\ sub.lastPayment = mostRecentCharge(sub)
        /\ {sub.transactions[i].id : i \in 1..Len(sub.transactions)}
               = {appTransactions[i].id : i \in groupOf(sub)}

\* a subscription whose group arrived oldest first
C20_Witness ==
    \E sub \in Emitted :
        /\ \E i, j \in groupOf(sub) :
               i < j /\ appTransactions[i].date < appTransactions[j].date
        /\ sub.transactions[1].date > sub.transactions[2].date
        /\ sub.lastPayment = sub.transactions[1].date

-----------------------------------------------------------------------------
(* Purity *)

-----------------------------------------------------------------------------
(* Reported amount *)

\* C22: the amount of an emitted subscription is the arithmetic mean of the
\* absolute values of the amounts of all its supporting transactions.
C22_AmountIsMeanOfAbsolutes ==
    \A sub \in Emitted :
        /\ sub.amount.den > 0
        /\ sub.amount.num * Len(sub.transactions)
               = sub.amount.den
                   * SumOver([i \in 1..Len(sub.transactions) |->
                                 IF sub.transactions[i].amount < 0
                                 THEN -sub.transactions[i].amount
                                 ELSE sub.transactions[i].amount],
                             1..Len(sub.transactions))

\* a subscription over unequal amounts whose mean is not a whole number
C22_Witness ==
    \E sub \in Emitted :
        /\ \E i, j \in 1..Len(sub.transactions) :
               sub.transactions[i].amount # sub.transactions[j].amount
        /\ sub.amount.num % sub.amount.den # 0

-----------------------------------------------------------------------------
(* Bills due within 7 days *)

Upcoming == {upcomingBilling[i] : i \in 1..Len(upcomingBilling)}

\* hours from the moment the page is opened to the midnight that starts the
\* day of the next estimated payment
hoursUntil(sub) == sub.nextEstimatedPayment * 24 - (now * 24 + nowHours)

-----------------------------------------------------------------------------
(* Interval gate of the dashboard card *)

\* the group an entry of the root card stands for, among the provider's records
rootCardGroupOf(entry) ==
    {i \in 1..Len(data) :
        /\ data[i].amount > 0
        /\ cardKey(data[i].name) = cardKey(entry.name)}

\* C24: the dashboard ActiveSubscriptions detector reports a group only if
\* every gap between its consecutive charges is within 5 days of the average
\* gap; a group with an outlier gap whose mean still lands in a named window
\* is not reported under that frequency.
C24_CardIntervalGate ==
    /\ \A i \in 1..Len(clientSubscriptions) :
           LET group == cardGroupOf(clientSubscriptions[i])
           IN  clientSubscriptions[i].frequency /= "Unknown"
                   => pairGapsPass(daysAt(group), Cardinality(group))
    /\ \A i \in 1..Len(rootSubscriptions) :
           LET group == rootCardGroupOf(rootSubscriptions[i])
           IN  rootSubscriptions[i].frequency /= "Unknown"
                   => pairGapsPass({data[j].date : j \in group}, Cardinality(group))

-----------------------------------------------------------------------------
(* One subscription per key *)

\* the key of the group a subscription was computed from, taken from its
\* supporting transactions
groupKeyOf(sub) == normalizedNameOf(sub.transactions[1])

\* C25: each normalized key contributes at most one subscription, and the
\* ids of the emitted subscriptions are pairwise distinct.
C25_OnePerKeyDistinctIds ==
    \A i, j \in 1..Len(detectedSubscriptions) :
        i # j =>
            /\ groupKeyOf(detectedSubscriptions[i]) # groupKeyOf(detectedSubscriptions[j])
            /\ detectedSubscriptions[i].id # detectedSubscriptions[j].id

\* two merchants are emitted at the same frequency, one of them charged
\* under two spellings
C25_Witness ==
    /\ Len(detectedSubscriptions) = 2
    /\ detectedSubscriptions[1].frequency = detectedSubscriptions[2].frequency
    /\ \E i \in 1..2 :
           \E m, n \in 1..Len(detectedSubscriptions[i].transactions) :
               detectedSubscriptions[i].transactions[m].merchant
                   # detectedSubscriptions[i].transactions[n].merchant

-----------------------------------------------------------------------------
(* Normalization of merchant labels *)

toUpperCaseChar(c) ==
    IF c \in Range(LowerCase)
    THEN UpperCase[CHOOSE i \in 1..26 : LowerCase[i] = c]
    ELSE c

\* spellings of a label that differ from it only in case, in punctuation or
\* in surrounding whitespace
Variants(label) ==
    { before \o cased \o after :
        before \in { <<>>, <<" ">>, <<"!", " ">> },
        cased \in { label,
                    [i \in 1..Len(label) |-> toUpperCaseChar(label[i])],
                    [i \in 1..Len(label) |-> toLowerCaseChar(label[i])] },
        after \in { <<>>, <<"!">>, <<" ">>, <<" ", "!">> } }

keyOfLabel(label) == normalizedNameOf([merchant |-> label])

\* the subscriptions a transaction of the input supports
supportedBy(i) ==
    {s \in 1..Len(detectedSubscriptions) :
        \E m \in 1..Len(detectedSubscriptions[s].transactions) :
            detectedSubscriptions[s].transactions[m].id = appTransactions[i].id}

\* C26: normalization is idempotent, and labels that differ only in case,
\* punctuation or surrounding whitespace map to the same key and land in the
\* same group.
C26_NormalizationIdempotent ==
    /\ \A i \in 1..Len(appTransactions) :
           LET label == appTransactions[i].merchant
           IN  /\ keyOfLabel(keyOfLabel(label)) = keyOfLabel(label)
               /\ \A spelling \in Variants(label) : keyOfLabel(spelling) = keyOfLabel(label)
    /\ \A i, j \in 1..Len(appTransactions) :
           /\ lessThan(appTransactions[i].amount, 0)
           /\ lessThan(appTransactions[j].amount, 0)
           /\ appTransactions[j].merchant \in Variants(appTransactions[i].merchant)
           => supportedBy(i) = supportedBy(j)

\* a subscription is emitted whose charges carry two spellings of the
\* merchant, one a variant of the other that is not yet normalized
C26_Witness ==
    \E s \in 1..Len(detectedSubscriptions) :
        \E i, j \in 1..Len(appTransactions) :
            /\ supportedBy(i) = {s}
            /\ supportedBy(j) = {s}
            /\ appTransactions[i].merchant # appTransactions[j].merchant
            /\ appTransactions[j].merchant \in Variants(appTransactions[i].merchant)
            /\ keyOfLabel(appTransactions[j].merchant) # appTransactions[j].merchant

-----------------------------------------------------------------------------
(* Confidence bands of the page's filter *)

StatusFilters == {"all", "active", "inactive"}
FrequencyFilters == {"all", "weekly", "monthly", "quarterly", "yearly"}

-----------------------------------------------------------------------------
(* useStore: syncWithPlaid *)

\* ids of the provider transactions handed to syncWithPlaid, and the day of
\* each: two transactions of the newest day and two of a month earlier
StoreIds == {1, 2, 3, 4}
storeDay(id) == IF id \in {1, 2} THEN LatestDay ELSE LatestDay - 30

storeCharge(id) ==
    [ transaction_id  |-> id,
      name            |-> Nf,
      merchant_name   |-> <<>>,
      amount          |-> 10,
      date            |-> storeDay(id),
      category        |-> <<>>,
      account_id      |-> "acc-1",
      payment_channel |-> "online",
      pending         |-> FALSE ]

StoreCharges == {storeCharge(id) : id \in StoreIds}

\* the batches a call may be given: any list of up to MaxBatch charges
Batches == UNION {[1..n -> StoreCharges] : n \in 0..MaxBatch}

\* Convert Plaid transactions to app format
convertTransaction(plaidTx) ==
    [ id              |-> plaidTx.transaction_id,
      merchant        |-> orElse(plaidTx.merchant_name, plaidTx.name),
      amount          |-> negated(plaidTx.amount),
      date            |-> plaidTx.date,
      category        |-> orElseLabel(firstCategory(plaidTx.category), "Other"),
      description     |-> plaidTx.name,
      account_id      |-> plaidTx.account_id,
      payment_channel |-> plaidTx.payment_channel,
      pending         |-> plaidTx.pending,
      isRecurring     |-> FALSE ]

\* the state update of syncWithPlaid: the converted transactions whose id is
\* not among the stored ones are appended, and the list is sorted newest first
mergedTransactions(stored, plaidTransactions) ==
    LET convertedTransactions ==
            [i \in 1..Len(plaidTransactions) |-> convertTransaction(plaidTransactions[i])]
        existingIds == {stored[i].id : i \in 1..Len(stored)}
        newTransactions ==
            SelectSeq(convertedTransactions, LAMBDA t : t.id \notin existingIds)
        merged == stored \o newTransactions
    IN  StableSort(merged, [i \in 1..Len(merged) |-> [j \in 1..Len(merged) |->
                               merged[j].date - merged[i].date < 0]])

\* a call of syncWithPlaid, with any batch
syncWithPlaid ==
    \E plaidTransactions \in Batches :
        /\ storeTransactions' = mergedTransactions(storeTransactions, plaidTransactions)
        /\ UNCHANGED <<pageVars, authVars, paymentVars>>

InitStore ==
    /\ PageCreated
    /\ StoreCreated
    /\ AuthCreated(NULL)
    /\ HandlerMounted(FALSE, NULL)

NextStore == syncWithPlaid

SpecStore == InitStore /\ [][NextStore]_vars

\* C28: starting from the empty store, after any sequence of syncWithPlaid
\* calls no two stored transactions share an id, whether the repeated id was
\* already stored or occurs twice inside one incoming batch; and syncing a
\* batch a second time leaves the list as the first sync left it.
C28_NoDuplicateIds ==
    /\ \A i, j \in 1..Len(storeTransactions) :
           i # j => storeTransactions[i].id # storeTransactions[j].id
    /\ \A plaidTransactions \in Batches :
           LET once == mergedTransactions(storeTransactions, plaidTransactions)
           IN  mergedTransactions(once, plaidTransactions) = once

-----------------------------------------------------------------------------
(* useAuth: the auth store and its asynchronous steps *)

\* A user, a session and a profile row are each held as the id of the user
\* they belong to; null is NULL.
Users == {"u1", "u2"}

\* fetchProfile up to its await: const { user } = get(); if (!user) return;
\* otherwise the query for user.id is sent
fetchProfileCalled(current) ==
    IF current = NULL THEN profileFetches ELSE profileFetches \cup {current}

\* supabase.auth changes state: the registered callback is to be called with
\* the new session
emitted(newSession) ==
    IF authListener THEN Append(authEvents, newSession) ELSE authEvents

\* initialize() up to its await: the listener is registered and getSession()
\* is called
initialize ==
    /\ initializePc = "idle"
    /\ authListener' = TRUE
    /\ initializePc' = "getSession"
    /\ UNCHANGED <<user, session, profile, isLoading, isInitialized, serverSession,
                   authEvents, profileTimers, profileFetches, signInPc, signOutPc,
                   signIns, signOuts>>
    /\ UNCHANGED <<pageVars, storeVars, paymentVars>>

\* getSession() settles: the store takes the session and, when it has a
\* user, fetchProfile is called; or getSession() rejects
getSessionSettles ==
    /\ initializePc = "getSession"
    /\ initializePc' = "done"
    /\ isLoading' = FALSE
    /\ isInitialized' = TRUE
    /\ \E resolved \in BOOLEAN :
        IF resolved
        THEN /\ session' = serverSession
             /\ user' = serverSession
             /\ profileFetches' = fetchProfileCalled(serverSession)
        ELSE UNCHANGED <<session, user, profileFetches>>
    /\ UNCHANGED <<profile, authListener, serverSession, authEvents, profileTimers,
                   signInPc, signOutPc, signIns, signOuts>>
    /\ UNCHANGED <<pageVars, storeVars, paymentVars>>

\* signIn() up to its await
signInCalled ==
    /\ signInPc = "idle"
    /\ signIns < MaxSignIns
    /\ \E credentials \in Users : signInPc' = credentials
    /\ isLoading' = TRUE
    /\ signIns' = signIns + 1
    /\ UNCHANGED <<user, session, profile, isInitialized, authListener, serverSession,
                   authEvents, profileTimers, profileFetches, initializePc, signOutPc,
                   signOuts>>
    /\ UNCHANGED <<pageVars, storeVars, paymentVars>>

\* signInWithPassword settles: on success the service holds the session and
\* announces it
signInSettles ==
    /\ signInPc # "idle"
    /\ signInPc' = "idle"
    /\ isLoading' = FALSE
    /\ \E accepted \in BOOLEAN :
        IF accepted
        THEN /\ serverSession' = signInPc
             /\ authEvents' = emitted(signInPc)
        ELSE UNCHANGED <<serverSession, authEvents>>
    /\ UNCHANGED <<user, session, profile, isInitialized, authListener, profileTimers,
                   profileFetches, initializePc, signOutPc, signIns, signOuts>>
    /\ UNCHANGED <<pageVars, storeVars, paymentVars>>

\* the onAuthStateChange callback
authStateChange ==
    /\ authEvents # <<>>
    /\ authEvents' = Tail(authEvents)
    /\ session' = Head(authEvents)
    /\ user' = Head(authEvents)
    /\ IF Head(authEvents) # NULL
       THEN /\ profileTimers' = profileTimers + 1
            /\ UNCHANGED profile
       ELSE /\ profile' = NULL
            /\ UNCHANGED profileTimers
    /\ UNCHANGED <<isLoading, isInitialized, authListener, serverSession, profileFetches,
                   initializePc, signInPc, signOutPc, signIns, signOuts>>
    /\ UNCHANGED <<pageVars, storeVars, paymentVars>>

\* setTimeout(() => get().fetchProfile(), 0) fires
profileTimerFires ==
    /\ profileTimers > 0
    /\ profileTimers' = profileTimers - 1
    /\ profileFetches' = fetchProfileCalled(user)
    /\ UNCHANGED <<user, session, profile, isLoading, isInitialized, authListener,
                   serverSession, authEvents, initializePc, signInPc, signOutPc,
                   signIns, signOuts>>
    /\ UNCHANGED <<pageVars, storeVars, paymentVars>>

\* fetchProfile after its await: the query settles with the row, with no
\* row (maybeSingle gives null), or with an error
fetchProfile ==
    /\ \E asked \in profileFetches, outcome \in {"row", "none", "error"} :
        /\ profileFetches' = profileFetches \ {asked}
        /\ profile' = CASE outcome = "row" -> asked
                        [] outcome = "none" -> NULL
                        [] outcome = "error" -> profile
    /\ UNCHANGED <<user, session, isLoading, isInitialized, authListener, serverSession,
                   authEvents, profileTimers, initializePc, signInPc, signOutPc,
                   signIns, signOuts>>
    /\ UNCHANGED <<pageVars, storeVars, paymentVars>>

\* signOut() up to its await
signOutCalled ==
    /\ signOutPc = "idle"
    /\ signOuts < MaxSignOuts
    /\ signOutPc' = "awaiting"
    /\ signOuts' = signOuts + 1
    /\ UNCHANGED <<user, session, profile, isLoading, isInitialized, authListener,
                   serverSession, authEvents, profileTimers, profileFetches,
                   initializePc, signInPc, signIns>>
    /\ UNCHANGED <<pageVars, storeVars, paymentVars>>

\* signOut() after its await: the service has dropped the session and
\* announced it, and the store is cleared; or the call threw
signOut ==
    /\ signOutPc = "awaiting"
    /\ signOutPc' = "idle"
    /\ \E resolved \in BOOLEAN :
        IF resolved
        THEN /\ serverSession' = NULL
             /\ authEvents' = emitted(NULL)
             /\ user' = NULL
             /\ session' = NULL
             /\ profile' = NULL
        ELSE UNCHANGED <<serverSession, authEvents, user, session, profile>>
    /\ UNCHANGED <<isLoading, isInitialized, authListener, profileTimers, profileFetches,
                   initializePc, signInPc, signIns, signOuts>>
    /\ UNCHANGED <<pageVars, storeVars, paymentVars>>

\* the browser may hold a session persisted by an earlier visit
InitAuth ==
    /\ PageCreated
    /\ StoreCreated
    /\ \E persisted \in Users \cup {NULL} : AuthCreated(persisted)
    /\ HandlerMounted(FALSE, NULL)

NextAuth ==
    \/ initialize \/ getSessionSettles
    \/ signInCalled \/ signInSettles
    \/ authStateChange \/ profileTimerFires \/ fetchProfile
    \/ signOutCalled \/ signOut

SpecAuth == InitAuth /\ [][NextAuth]_vars

\* C29: under every interleaving of initialize, the auth-state-change
\* callback, fetchProfile and signOut, a store without a user has no profile:
\* a fetchProfile started while signed in and settling after signOut does not
\* put the profile back.
C29_NoProfileWithoutUser == user = NULL => profile = NULL

-----------------------------------------------------------------------------
(* PaymentSuccessHandler: the effect and its poll *)

\* a slip: the loop bound taken inclusively (i <= 5)
pollContinuesInclusive(i) == i <= 5

\* for (let i = 0; i < 5; i++)
pollContinues(i) == i < 5

\* data?.is_pro of a settled refetch: the row's value, or undefined when the
\* query failed
refetchData == {IF isPro THEN "pro" ELSE "free", NULL}

\* the poll reaches the test of its loop with index i: it calls refetch()
\* again, or leaves the loop and calls navigate('/assistant', { replace: true }),
\* which drops the query parameters
pollAt(i) ==
    /\ pollIndex' = i
    /\ IF pollContinues(i)
       THEN /\ pollPc' = "refetching"
            /\ pollRefetches' = pollRefetches + 1
            /\ UNCHANGED <<location, paymentSuccess>>
       ELSE /\ pollPc' = "navigated"
            /\ location' = "/assistant"
            /\ paymentSuccess' = FALSE
            /\ UNCHANGED pollRefetches

\* the effect runs: after mounting, after a change of its dependencies, and
\* once more under StrictMode
useEffect ==
    /\ mounted
    /\ effectPending
    /\ IF ~handled /\ paymentSuccess /\ handlerUserId # NULL
       THEN /\ handled' = TRUE
            /\ handledCount' = handledCount + 1
            /\ pollAt(0)
            /\ effectPending' = (pollPc' = "navigated")
       ELSE /\ effectPending' = FALSE
            /\ UNCHANGED <<handled, handledCount, pollPc, pollIndex, pollRefetches,
                           location, paymentSuccess>>
    /\ UNCHANGED <<mounted, handlerUserId, strictReruns, redirects, isPro, pollResults>>
    /\ UNCHANGED <<pageVars, storeVars, authVars>>

\* StrictMode runs the effect of the mounted instance again; the ref is kept
strictModeRerun ==
    /\ mounted
    /\ ~effectPending
    /\ strictReruns < MaxStrictReruns
    /\ strictReruns' = strictReruns + 1
    /\ effectPending' = TRUE
    /\ UNCHANGED <<mounted, paymentSuccess, handlerUserId, handled, redirects, isPro,
                   pollPc, pollIndex, pollResults, pollRefetches, handledCount, location>>
    /\ UNCHANGED <<pageVars, storeVars, authVars>>

\* useAuth delivers the user: the component renders with a new user?.id
userLoaded ==
    /\ mounted
    /\ handlerUserId = NULL
    /\ handlerUserId' = "u1"
    /\ effectPending' = TRUE
    /\ UNCHANGED <<mounted, paymentSuccess, handled, strictReruns, redirects, isPro,
                   pollPc, pollIndex, pollResults, pollRefetches, handledCount, location>>
    /\ UNCHANGED <<pageVars, storeVars, authVars>>

\* the browser arrives on a URL with success=true and a session_id
redirectArrives ==
    /\ ~paymentSuccess
    /\ redirects < MaxRedirects
    /\ redirects' = redirects + 1
    /\ paymentSuccess' = TRUE
    /\ location' = "/"
    /\ effectPending' = mounted
    /\ UNCHANGED <<mounted, handlerUserId, handled, strictReruns, isPro, pollPc,
                   pollIndex, pollResults, pollRefetches, handledCount>>
    /\ UNCHANGED <<pageVars, storeVars, authVars>>

\* the payment webhook marks the account as pro
webhookLands ==
    /\ ~isPro
    /\ isPro' = TRUE
    /\ UNCHANGED <<mounted, paymentSuccess, handlerUserId, handled, effectPending,
                   strictReruns, redirects, pollPc, pollIndex, pollResults,
                   pollRefetches, handledCount, location>>
    /\ UNCHANGED <<pageVars, storeVars, authVars>>

\* const { data } = await refetch(); if (data?.is_pro) break; otherwise the
\* poll sleeps 1500 ms
refetchSettles ==
    /\ pollPc = "refetching"
    /\ \E is_pro \in refetchData :
        /\ pollResults' = Append(pollResults, is_pro)
        /\ IF is_pro = "pro"
           THEN /\ pollPc' = "navigated"
                /\ location' = "/assistant"
                /\ paymentSuccess' = FALSE
                /\ effectPending' = mounted
           ELSE /\ pollPc' = "waiting"
                /\ UNCHANGED <<location, paymentSuccess, effectPending>>
    /\ UNCHANGED <<mounted, handlerUserId, handled, strictReruns, redirects, isPro,
                   pollIndex, pollRefetches, handledCount>>
    /\ UNCHANGED <<pageVars, storeVars, authVars>>

\* the 1500 ms timer fires: i++ and the loop's test
pollTimerFires ==
    /\ pollPc = "waiting"
    /\ pollAt(pollIndex + 1)
    /\ effectPending' = IF pollPc' = "navigated" THEN mounted ELSE effectPending
    /\ UNCHANGED <<mounted, handlerUserId, handled, strictReruns, redirects, isPro,
                   pollResults, handledCount>>
    /\ UNCHANGED <<pageVars, storeVars, authVars>>

\* the instance unmounts; a running poll is not cancelled
unmount ==
    /\ mounted
    /\ mounted' = FALSE
    /\ effectPending' = FALSE
    /\ UNCHANGED <<paymentSuccess, handlerUserId, handled, strictReruns, redirects,
                   isPro, pollPc, pollIndex, pollResults, pollRefetches, handledCount,
                   location>>
    /\ UNCHANGED <<pageVars, storeVars, authVars>>

InitPayment ==
    /\ PageCreated
    /\ StoreCreated
    /\ AuthCreated(NULL)
    /\ \E successUrl \in BOOLEAN, userId \in {NULL, "u1"} :
           HandlerMounted(successUrl, userId)

NextPayment ==
    \/ useEffect \/ strictModeRerun \/ userLoaded \/ redirectArrives
    \/ webhookLands \/ refetchSettles \/ pollTimerFires \/ unmount

\* A refetch settles (the query resolves or fails, it does not hang) and a
\* timer fires.
SpecPayment ==
    /\ InitPayment
    /\ [][NextPayment]_vars
    /\ WF_vars(refetchSettles)
    /\ WF_vars(pollTimerFires)

\* the poll has asked at most five times, has stopped at the first answer
\* that says pro, and has navigated only after such an answer or after the
\* fifth one
pollBounded ==
    /\ handledCount <= 1
    /\ pollRefetches <= 5
    /\ Len(pollResults) <= pollRefetches
    /\ \A k \in 1..Len(pollResults) :
           pollResults[k] = "pro" => k = Len(pollResults) /\ pollPc = "navigated"
    /\ pollPc = "navigated" =>
           /\ handledCount = 1
           /\ \/ pollResults[Len(pollResults)] = "pro"
              \/ Len(pollResults) = 5
           /\ ~paymentSuccess => location = "/assistant"

\* C30: a mounted PaymentSuccessHandler handles a successful-payment redirect
\* at most once however often its effect runs, and its poll terminates: it
\* makes at most 5 refetches, stops at the first one that reports is_pro, and
\* always ends by navigating to /assistant, even if is_pro never becomes true.
C30_HandledOncePollTerminates ==
    /\ []pollBounded
    /\ handled ~> (pollPc = "navigated")

\* the poll has used all five refetches without ever seeing is_pro, has
\* navigated, and a later success URL has run the effect without a second
\* handling
C30_Witness ==
    /\ pollPc = "navigated"
    /\ pollRefetches = 5
    /\ ~isPro
    /\ redirects >= 1
    /\ paymentSuccess
    /\ mounted
    /\ ~effectPending
    /\ handledCount = 1

=============================================================================
